---------------------------- MODULE Spec2Model ----------------------------
(***************************************************************************)
(* Model of updown/utils/cbs.py: class ConstraintFilter.                   *)
(*                                                                         *)
(*   __init__   reads the object class hierarchy (a JSON tree) into an     *)
(*              anytree tree, dropping the children whose LabelName is in  *)
(*              BLACKLIST, and stores nms_threshold and topk;              *)
(*   __call__   drops padding / blacklisted detections, runs _nms, keeps   *)
(*              the topk by score, applies REPLACEMENTS, drops duplicates; *)
(*   _nms       greedy sweep over the detections ordered by the height of  *)
(*              their class in the hierarchy.                              *)
(*                                                                         *)
(* Conventions.  Python indexes from 0, TLA+ sequences from 1: every index *)
(* of the model is the Python index plus one.  A JSON tree is held flat:   *)
(* node 1 is the root, parent[i] < i is the node whose "Subcategory" list  *)
(* holds node i, and a "Subcategory" list is in ascending node order.      *)
(* Class names are strings; "LabelName in c" is Python's substring test.   *)
(* nms_threshold is held in hundredths (0.85 is 85) and the IoU test is    *)
(* cross-multiplied, so the arithmetic stays in the integers.              *)
(***************************************************************************)
EXTENDS Integers, Sequences, FiniteSets, TLC

VARIABLES
    taxonomy,       \* the JSON tree __init__ loads (json.load(open(path)))
    constructed,    \* whether __init__ has run
    hierarchy,      \* self._hierarchy
    nms_threshold,  \* self._nms_threshold, in hundredths
    topk,           \* self._topk
    argsort_ties,   \* how this build's np.argsort orders equal keys
    caller,         \* per thread: the arrays the caller passed to __call__
    frame           \* per thread: the locals of __call__ and _nms

vars == <<taxonomy, constructed, hierarchy, nms_threshold, topk, argsort_ties,
          caller, frame>>

-----------------------------------------------------------------------------
(* Bounds of the model.                                                    *)

\* Longest detection batch handed to __call__ by the single caller of Spec.
MaxBatch == 3
\* Largest topk the filter is constructed with.
MaxTopk == 2
\* Most nodes of a JSON tree in SpecBuild.
MaxNodes == 4
\* Longest detection batch of a caller in SpecConc (two callers interleaved).
MaxConcBatch == 2

-----------------------------------------------------------------------------
(* Class constants.                                                        *)

BLACKLIST ==
    { "auto part", "bathroom accessory", "bicycle wheel", "boy", "building", "clothing",
      "door handle", "fashion accessory", "footwear", "girl", "hiking equipment", "human arm",
      "human beard", "human body", "human ear", "human eye", "human face", "human foot",
      "human hair", "human hand", "human head", "human leg", "human mouth", "human nose",
      "land vehicle", "mammal", "man", "person", "personal care", "plant", "plumbing fixture",
      "seat belt", "skull", "sports equipment", "tire", "tree", "vehicle registration plate",
      "wheel", "woman" }

REPLACEMENTS ==
    ("band-aid" :> "bandaid") @@
    ("wood-burning stove" :> "wood burning stove") @@
    ("kitchen & dining room table" :> "table") @@
    ("salt and pepper shakers" :> "salt and pepper") @@
    ("power plugs and sockets" :> "power plugs") @@
    ("luggage and bags" :> "luggage")

\* nms_threshold: float = 0.85, in hundredths.
DefaultNmsThreshold == 85

-----------------------------------------------------------------------------
(* Python and numpy primitives.                                            *)

Min(a, b) == IF a <= b THEN a ELSE b
Max(a, b) == IF a >= b THEN a ELSE b

\* Python's "a in b" on strings: a occurs in b as a contiguous substring.
IsIn(a, b) == \E i \in 0..(Len(b) - Len(a)) : SubSeq(b, i + 1, i + Len(a)) = a

\* seq[idx] of numpy (an index list) and [seq[i] for i in idx] of Python.
Take(seq, idx) == [k \in 1..Len(idx) |-> seq[idx[k]]]

\* Whether every index of idx is inside seq; otherwise indexing raises IndexError.
InBounds(seq, idx) == \A k \in 1..Len(idx) : idx[k] \in 1..Len(seq)

\* The elements of a sequence, as a set.
Range(seq) == {seq[k] : k \in 1..Len(seq)}

\* A finite set of integers as the sequence of its elements in ascending order.
Ascending(S) ==
    [k \in 1..Cardinality(S) |-> CHOOSE x \in S : Cardinality({y \in S : y < x}) = k - 1]

-----------------------------------------------------------------------------
(* __init__: the hierarchy.                                                *)

\* attributes.pop("Subcategory", []): the children of a JSON node, in order.
Subcategory(tax, node) ==
    SelectSeq([j \in 1..Len(tax.parent) |-> j], LAMBDA j : tax.parent[j] = node)

\* A plausible slip: the blacklisted child is skipped but its own children are
\* still read, attached to the node above it (pruning node-wide, not subtree-wide).
RECURSIVE read_hierarchy_nodewise(_, _, _)
read_hierarchy_nodewise(tax, node, parent) ==
    LET children == Subcategory(tax, node)
        below    == UNION {read_hierarchy_nodewise(
                               tax, children[k],
                               IF tax.label[node] \in BLACKLIST /\ parent # 0
                                   THEN parent ELSE node) : k \in 1..Len(children)}
    IN  IF tax.label[node] \in BLACKLIST /\ parent # 0
            THEN below
            ELSE {<<node, parent>>} \cup below

\* __read_hierarchy(node, parent): the set of <<created node, its parent>> pairs.
\* The children in BLACKLIST are dropped before the recursion, so nothing below
\* them is read; the node itself (the root, on the outer call) is never tested.
RECURSIVE read_hierarchy(_, _, _)
read_hierarchy(tax, node, parent) ==
    LET children == SelectSeq(Subcategory(tax, node),
                              LAMBDA child : tax.label[child] \notin BLACKLIST)
    IN  {<<node, parent>>} \cup
        UNION {read_hierarchy(tax, children[k], node) : k \in 1..Len(children)}

\* The anytree tree the pairs make: self._hierarchy is its root, node 1.
Tree(tax, pairs) ==
    LET nodes == {e[1] : e \in pairs}
    IN  [ root      |-> 1,
          nodes     |-> nodes,
          parent    |-> [n \in nodes |-> (CHOOSE e \in pairs : e[1] = n)[2]],
          LabelName |-> [n \in nodes |-> tax.label[n]] ]

\* The value of self._hierarchy before __init__ has assigned it.
NoHierarchy == [root |-> 1, nodes |-> {}, parent |-> <<>>, LabelName |-> <<>>]

\* node.children of anytree: in the order the children were attached.
NodeChildren(h, n) == Ascending({j \in h.nodes : h.parent[j] = n})

\* node.height of anytree: number of edges on the longest path to a leaf.
RECURSIVE NodeHeight(_, _)
NodeHeight(h, n) ==
    LET kids == NodeChildren(h, n)
    IN  IF kids = <<>> THEN 0
        ELSE 1 + (CHOOSE m \in {NodeHeight(h, kids[k]) : k \in 1..Len(kids)} :
                      \A k \in 1..Len(kids) : NodeHeight(h, kids[k]) <= m)

\* anytree.PreOrderIter(node): the node itself, then each child's subtree.
RECURSIVE PreOrderIter(_, _)
RECURSIVE PreOrderAll(_, _)
PreOrderIter(h, n) == <<n>> \o PreOrderAll(h, NodeChildren(h, n))
PreOrderAll(h, kids) ==
    IF kids = <<>> THEN <<>>
    ELSE PreOrderIter(h, Head(kids)) \o PreOrderAll(h, Tail(kids))

\* anytree.search.findall(self._hierarchy, lambda node: node.LabelName in c).
findall(h, c) ==
    SelectSeq(PreOrderIter(h, h.root), LAMBDA n : IsIn(h.LabelName[n], c))

-----------------------------------------------------------------------------
(* _nms.                                                                   *)

\* A plausible slip: a class no node matches is given the root's height instead
\* of failing.
resolve_or_root(h, c) ==
    LET found == findall(h, c)
    IN  IF found = <<>> THEN h.root ELSE found[1]

\* A plausible slip: the last match is taken instead of the first.
resolve_last(h, c) ==
    LET found == findall(h, c)
    IN  IF found = <<>> THEN 0 ELSE found[Len(found)]

\* findall(...)[0]: the first node, in pre-order from the root (the root
\* included), whose LabelName occurs in c; 0 stands for the IndexError that
\* indexing an empty result raises.
resolve(h, c) ==
    LET found == findall(h, c)
    IN  IF found = <<>> THEN 0 ELSE found[1]

\* heights.argsort(): the indices ordered by ascending height.  numpy's default
\* kind (quicksort) leaves the order of equal keys unspecified; it is fixed for a
\* build, and the model carries the two extreme builds: "stable" keeps equal keys
\* in index order, "reversed" puts them in reverse index order.
argsort(heights, ties) ==
    LET n == Len(heights)
        Before(i, j) == \/ heights[i] < heights[j]
                        \/ /\ heights[i] = heights[j]
                           /\ IF ties = "stable" THEN i < j ELSE i > j
    IN  [k \in 1..n |-> CHOOSE i \in 1..n :
                            Cardinality({j \in 1..n : Before(j, i)}) = k - 1]

\* areas = (x2 - x1 + 1) * (y2 - y1 + 1), a box being <<x1, y1, x2, y2>>.
area(box) == (box[3] - box[1] + 1) * (box[4] - box[2] + 1)

\* intersection of the current box with another one.
intersection(a, b) ==
    LET xx1 == Max(a[1], b[1])
        yy1 == Max(a[2], b[2])
        xx2 == Min(a[3], b[3])
        yy2 == Min(a[4], b[4])
    IN  Max(0, xx2 - xx1 + 1) * Max(0, yy2 - yy1 + 1)

\* union of the current box with another one.
union(a, b) == area(a) + area(b) - intersection(a, b)

\* keep_condition for the index j of score_order[1:], current being
\* score_order[0]: np.logical_or(heights[j] >= heights[current],
\* intersection / union <= nms_threshold).
keep_condition(heights, boxes, threshold, current, j) ==
    \/ heights[j] >= heights[current]
    \/ intersection(boxes[current], boxes[j]) * 100 <= threshold * union(boxes[current], boxes[j])

\* A plausible slip: the line "score_order = score_order[1:]" is left out, so the
\* positions np.where gives (relative to score_order[1:]) index score_order itself.
next_order_unshifted(heights, boxes, threshold, score_order) ==
    LET rest  == Tail(score_order)
        where == SelectSeq([k \in 1..Len(rest) |-> k],
                           LAMBDA k : keep_condition(heights, boxes, threshold,
                                                     score_order[1], rest[k]))
    IN  [k \in 1..Len(where) |-> score_order[where[k]]]

\* score_order = score_order[1:]; score_order = score_order[np.where(keep_condition)[0]].
next_order(heights, boxes, threshold, score_order) ==
    SelectSeq(Tail(score_order),
              LAMBDA j : keep_condition(heights, boxes, threshold, score_order[1], j))

-----------------------------------------------------------------------------
(* __call__.                                                               *)

\* A plausible slip: the score test admits the padding boxes (>= for >).
pre_filter_keeps_padding(class_names, scores) ==
    SelectSeq([i \in 1..Len(class_names) |-> i],
              LAMBDA i : scores[i] >= 0 /\ class_names[i] \notin BLACKLIST)

\* keep_indices of the pre-filter: the i in range(len(class_names)) with
\* scores[i] > 0 and class_names[i] not in BLACKLIST.
pre_filter(class_names, scores) ==
    SelectSeq([i \in 1..Len(class_names) |-> i],
              LAMBDA i : scores[i] > 0 /\ class_names[i] \notin BLACKLIST)

\* list(zip(class_names, scores)).
zip(class_names, scores) ==
    [k \in 1..Min(Len(class_names), Len(scores)) |-> <<class_names[k], scores[k]>>]

\* A plausible slip: the sort is by ascending score.
sorted_ascending(pairs) ==
    LET n == Len(pairs)
        Before(i, j) == \/ pairs[i][2] < pairs[j][2]
                        \/ pairs[i][2] = pairs[j][2] /\ i < j
    IN  [k \in 1..n |-> pairs[CHOOSE i \in 1..n :
                                  Cardinality({j \in 1..n : Before(j, i)}) = k - 1]]

\* sorted(pairs, key=lambda t: -t[1]): by descending score; Python's sort is
\* stable, so pairs of equal score stay in the order of the list sorted.
sorted_by_score(pairs) ==
    LET n == Len(pairs)
        Before(i, j) == \/ pairs[i][2] > pairs[j][2]
                        \/ pairs[i][2] = pairs[j][2] /\ i < j
    IN  [k \in 1..n |-> pairs[CHOOSE i \in 1..n :
                                  Cardinality({j \in 1..n : Before(j, i)}) = k - 1]]

\* A plausible slip: an off-by-one slice, pairs[: topk + 1].
slice_one_more(seq, k) == SubSeq(seq, 1, Min(k + 1, Len(seq)))

\* seq[:k] of Python: the first k elements, or all but the last -k for k < 0.
slice(seq, k) ==
    IF k >= 0 THEN SubSeq(seq, 1, Min(k, Len(seq)))
    ELSE SubSeq(seq, 1, Max(0, Len(seq) + k))

\* self.REPLACEMENTS.get(name, name).
replace(name) == IF name \in DOMAIN REPLACEMENTS THEN REPLACEMENTS[name] ELSE name

-----------------------------------------------------------------------------
(* The inputs.                                                             *)

\* The threads that call the filter.
Threads == {1, 2}

\* The JSON tree of Spec and SpecConc: "dog" below "animal", "kitchen & dining
\* room table" below "table" (whose name occurs in it), and the blacklisted
\* "plant" with "houseplant" below it.
MainTaxonomies ==
    { [ parent |-> <<0, 1, 2, 1, 4, 1, 6>>,
        label  |-> <<"entity", "animal", "dog", "table", "kitchen & dining room table",
                     "plant", "houseplant">> ] }

\* JSON trees of SpecBuild: every tree of at most max nodes over these labels.
BuildLabels == {"entity", "animal", "dog", "plant"}

BuildTaxonomies(max) ==
    UNION { { [parent |-> p, label |-> l] :
                p \in {q \in [1..n -> 0..n] : /\ q[1] = 0
                                              /\ \A i \in 2..n : q[i] \in 1..(i - 1)},
                l \in [1..n -> BuildLabels] } : n \in 1..max }

\* Detections a batch is drawn from: box, class name, score.  The first two boxes
\* overlap with IoU 110/121; the third is apart from both.
Pool ==
    { [box |-> <<0, 0, 10, 10>>,   class_name |-> "dog",        score |-> 2],
      [box |-> <<0, 0, 10, 9>>,    class_name |-> "animal",     score |-> 2],
      [box |-> <<20, 20, 30, 30>>, class_name |-> "kitchen & dining room table",
                                                                score |-> 1],
      [box |-> <<0, 0, 10, 10>>,   class_name |-> "plant",      score |-> 2],
      [box |-> <<0, 0, 10, 9>>,    class_name |-> "dog",        score |-> 0],
      [box |-> <<20, 20, 30, 30>>, class_name |-> "houseplant", score |-> 1],
      [box |-> <<20, 20, 30, 30>>, class_name |-> "entity",     score |-> 2] }

ConcPool ==
    { [box |-> <<0, 0, 10, 10>>,   class_name |-> "dog",        score |-> 2],
      [box |-> <<0, 0, 10, 9>>,    class_name |-> "animal",     score |-> 2],
      [box |-> <<0, 0, 10, 9>>,    class_name |-> "dog",        score |-> 0] }

\* The three arrays of a call: the first lb boxes, lc class names and ls scores
\* of a sequence of detections.
Arrays(dets, lb, lc, ls) ==
    [ boxes       |-> [k \in 1..lb |-> dets[k].box],
      class_names |-> [k \in 1..lc |-> dets[k].class_name],
      scores      |-> [k \in 1..ls |-> dets[k].score] ]

\* Every call over at most n detections of pool: the three arrays of equal
\* length, or one of them (boxes, class_names or scores) an element shorter
\* than the other two.
Calls(pool, n) ==
    UNION { { Arrays(dets, k - short[1], k - short[2], k - short[3]) :
                dets \in [1..k -> pool],
                short \in {s \in [1..3 -> {0, 1}] : s[1] + s[2] + s[3] <= Min(k, 1)} }
            : k \in 0..n }

\* Calls whose three arrays have the same length.
EqualCalls(pool, n) ==
    UNION { { Arrays(dets, k, k, k) : dets \in [1..k -> pool] } : k \in 0..n }

\* The calls of the single caller of Spec, and of each caller of SpecConc.
MainCalls == Calls(Pool, MaxBatch)
ConcCalls == EqualCalls(ConcPool, MaxConcBatch)

NoArrays == [boxes |-> <<>>, class_names |-> <<>>, scores |-> <<>>]

\* The locals of a call that has not started.
IdleFrame ==
    [ pc                     |-> "idle",
      boxes                  |-> <<>>,
      class_names            |-> <<>>,
      scores                 |-> <<>>,
      keep_indices           |-> <<>>,
      heights                |-> <<>>,
      score_order            |-> <<>>,
      keep_box_indices       |-> <<>>,
      class_names_and_scores |-> <<>>,
      returned               |-> {},
      raised_at              |-> 0 ]

-----------------------------------------------------------------------------
(* The actions.                                                            *)

\* __init__ (lines 74-91): build the tree; nms_threshold and topk are the
\* arguments, held by the variables of the same name from the start.
Construct ==
    /\ ~constructed
    /\ constructed' = TRUE
    /\ hierarchy' = Tree(taxonomy, read_hierarchy(taxonomy, 1, 0))
    /\ UNCHANGED <<taxonomy, nms_threshold, topk, argsort_ties, caller, frame>>

\* A plausible slip: the arrays are filtered in place.
caller_filtered_in_place(arrays, keep_indices) ==
    [ boxes       |-> Take(arrays.boxes, keep_indices),
      class_names |-> Take(arrays.class_names, keep_indices),
      scores      |-> Take(arrays.scores, keep_indices) ]

\* What lines 102-104 leave in the caller's arrays: boxes[keep_indices] and the
\* list comprehension build new objects and rebind the local names only.
caller_after_rebind(arrays, keep_indices) == arrays

\* Thread t enters __call__ with the arrays of one call.
Call(t, calls) ==
    /\ constructed
    /\ frame[t].pc = "idle"
    /\ \E c \in calls :
          /\ caller' = [caller EXCEPT ![t] = c]
          /\ frame' = [frame EXCEPT ![t] =
                          [IdleFrame EXCEPT !.pc = "prefilter",
                                            !.boxes = c.boxes,
                                            !.class_names = c.class_names,
                                            !.scores = c.scores]]
    /\ UNCHANGED <<taxonomy, constructed, hierarchy, nms_threshold, topk, argsort_ties>>

\* Lines 97-104: the pre-filter.  scores[i] is read for every i in
\* range(len(class_names)), so it raises IndexError when scores is shorter;
\* boxes[keep_indices] raises IndexError when an index kept is outside boxes.
PreFilter(t) ==
    LET f == frame[t]
        keep == pre_filter(f.class_names, f.scores)
    IN  /\ f.pc = "prefilter"
        /\ IF Len(f.scores) < Len(f.class_names)
              THEN /\ frame' = [frame EXCEPT ![t].pc = "raised", ![t].raised_at = 99]
                   /\ UNCHANGED caller
           ELSE IF ~InBounds(f.boxes, keep)
              THEN /\ frame' = [frame EXCEPT ![t].pc = "raised", ![t].raised_at = 102,
                                             ![t].keep_indices = keep]
                   /\ UNCHANGED caller
           ELSE /\ frame' = [frame EXCEPT ![t].pc = "nms",
                                          ![t].keep_indices = keep,
                                          ![t].boxes = Take(f.boxes, keep),
                                          ![t].class_names = Take(f.class_names, keep),
                                          ![t].scores = Take(f.scores, keep)]
                /\ caller' = [caller EXCEPT ![t] = caller_after_rebind(@, keep)]
        /\ UNCHANGED <<taxonomy, constructed, hierarchy, nms_threshold, topk, argsort_ties>>

\* Lines 132-150 of _nms: heights (findall(...)[0] raises IndexError for a class
\* no node matches), score_order, and the empty keep_box_indices.
NmsBegin(t) ==
    LET f == frame[t]
        nodes == [k \in 1..Len(f.class_names) |-> resolve(hierarchy, f.class_names[k])]
        heights == [k \in 1..Len(nodes) |-> NodeHeight(hierarchy, nodes[k])]
    IN  /\ f.pc = "nms"
        /\ IF \E k \in 1..Len(nodes) : nodes[k] = 0
              THEN frame' = [frame EXCEPT ![t].pc = "raised", ![t].raised_at = 134]
              ELSE frame' = [frame EXCEPT ![t].pc = "loop",
                                          ![t].heights = heights,
                                          ![t].score_order = argsort(heights, argsort_ties),
                                          ![t].keep_box_indices = <<>>]
        /\ UNCHANGED <<taxonomy, constructed, hierarchy, nms_threshold, topk, argsort_ties,
                       caller>>

\* Lines 152-176: one iteration of the sweep.
NmsIter(t) ==
    LET f == frame[t]
    IN  /\ f.pc = "loop"
        /\ f.score_order # <<>>
        /\ frame' = [frame EXCEPT
                        ![t].keep_box_indices = Append(f.keep_box_indices, f.score_order[1]),
                        ![t].score_order = next_order(f.heights, f.boxes, nms_threshold,
                                                      f.score_order)]
        /\ UNCHANGED <<taxonomy, constructed, hierarchy, nms_threshold, topk, argsort_ties,
                       caller>>

\* Line 178 and lines 108-122: _nms returns, the survivors are selected, sorted
\* by score, cut to topk, replaced and de-duplicated.
Return(t) ==
    LET f == frame[t]
        keep == f.keep_box_indices
        names == Take(f.class_names, keep)
        scores == Take(f.scores, keep)
        pairs == slice(sorted_by_score(zip(names, scores)), topk)
    IN  /\ f.pc = "loop"
        /\ f.score_order = <<>>
        /\ frame' = [frame EXCEPT ![t].pc = "returned",
                                  ![t].keep_indices = keep,
                                  ![t].boxes = Take(f.boxes, keep),
                                  ![t].class_names = names,
                                  ![t].scores = scores,
                                  ![t].class_names_and_scores = pairs,
                                  ![t].returned = {replace(pairs[k][1]) : k \in 1..Len(pairs)}]
        /\ UNCHANGED <<taxonomy, constructed, hierarchy, nms_threshold, topk, argsort_ties,
                       caller>>

\* The call is over (a list returned or an IndexError raised): the caller drops
\* its arrays and the thread is free for the next call.
Finish(t) ==
    /\ frame[t].pc \in {"returned", "raised"}
    /\ frame' = [frame EXCEPT ![t] = IdleFrame]
    /\ caller' = [caller EXCEPT ![t] = NoArrays]
    /\ UNCHANGED <<taxonomy, constructed, hierarchy, nms_threshold, topk, argsort_ties>>

-----------------------------------------------------------------------------
(* The specifications.                                                     *)

\* The constructor's arguments and the idle threads.
InitWith(taxonomies) ==
    /\ taxonomy \in taxonomies
    /\ constructed = FALSE
    /\ hierarchy = NoHierarchy
    /\ nms_threshold = DefaultNmsThreshold
    /\ topk \in -1..MaxTopk
    /\ argsort_ties \in {"stable", "reversed"}
    /\ caller = [t \in Threads |-> NoArrays]
    /\ frame = [t \in Threads |-> IdleFrame]

\* One filter, one caller, calls one after the other.
Init == InitWith(MainTaxonomies)

Next ==
    \/ Construct
    \/ Call(1, MainCalls)
    \/ PreFilter(1)
    \/ NmsBegin(1)
    \/ NmsIter(1)
    \/ Return(1)
    \/ Finish(1)

Spec == Init /\ [][Next]_vars

\* Construction alone, over every small JSON tree.
InitBuild == InitWith(BuildTaxonomies(MaxNodes))

NextBuild == Construct

SpecBuild == InitBuild /\ [][NextBuild]_vars

\* One filter constructed with topk = 1, two callers whose calls interleave
\* step by step.
InitConc == InitWith(MainTaxonomies) /\ topk = 1

NextConc ==
    \/ Construct
    \/ \E t \in Threads :
          \/ Call(t, ConcCalls)
          \/ PreFilter(t)
          \/ NmsBegin(t)
          \/ NmsIter(t)
          \/ Return(t)
          \/ Finish(t)

SpecConc == InitConc /\ [][NextConc]_vars

-----------------------------------------------------------------------------
(* What the claims speak of.                                               *)

\* The detections of a call that pass the pre-filter, as indices of class_names.
Survivors(c) ==
    {i \in 1..Len(c.class_names) :
        i <= Len(c.scores) /\ c.scores[i] > 0 /\ c.class_names[i] \notin BLACKLIST}

\* Whether some node of the constructed hierarchy has its LabelName in name.
SomeNodeMatches(name) ==
    \E n \in hierarchy.nodes : IsIn(hierarchy.LabelName[n], name)

\* Whether the IoU of two boxes is above the threshold (in hundredths).
IoUAbove(a, b, threshold) == intersection(a, b) * 100 > threshold * union(a, b)

\* A node of the JSON tree and the nodes above it.
RECURSIVE TaxAncestors(_, _)
TaxAncestors(tax, n) == IF n = 0 THEN {} ELSE {n} \cup TaxAncestors(tax, tax.parent[n])

\* A node of the constructed hierarchy and the nodes above it.
RECURSIVE Ancestors(_)
Ancestors(n) == IF n = 0 THEN {} ELSE {n} \cup Ancestors(hierarchy.parent[n])

\* Whether node m comes before node m2 when the hierarchy is walked in pre-order:
\* m is above m2, or their branches part below a common node with m's first.
Precedes(m, m2) ==
    /\ m # m2
    /\ \/ m \in Ancestors(m2)
       \/ /\ m2 \notin Ancestors(m)
          /\ \E a \in Ancestors(m), b \in Ancestors(m2) :
                a # b /\ hierarchy.parent[a] = hierarchy.parent[b] /\ a < b

-----------------------------------------------------------------------------
(* C1 *)

\* C1: when _nms has finished, for every two pre-filter survivors A and B with
\* height(A) < height(B) and IoU(A, B) above nms_threshold, B is not in the kept
\* list and A is.
C1_FinerSuppressesCoarser ==
    \A t \in Threads :
        LET f == frame[t]
        IN  (f.pc = "loop" /\ f.score_order = <<>>) =>
                \A a, b \in 1..Len(f.boxes) :
                    (/\ f.heights[a] < f.heights[b]
                     /\ IoUAbove(f.boxes[a], f.boxes[b], nms_threshold))
                    => (/\ b \notin Range(f.keep_box_indices)
                        /\ a \in Range(f.keep_box_indices))

-----------------------------------------------------------------------------
(* C2 *)

\* C2, as stated: the list a call returns holds at most topk labels, for every
\* topk the filter is constructed with.
C2_AtMostTopk ==
    \A t \in Threads :
        frame[t].pc = "returned" => Cardinality(frame[t].returned) <= topk

\* C2, amended: for every topk >= 0 the list a call returns holds at most topk
\* labels.
C2_AtMostTopkWhenNonNegative ==
    \A t \in Threads :
        (frame[t].pc = "returned" /\ topk >= 0)
            => Cardinality(frame[t].returned) <= topk

\* A call with more NMS survivors than topk >= 1 has returned topk labels.
C2_Witness ==
    \E t \in Threads :
        /\ frame[t].pc = "returned"
        /\ topk >= 1
        /\ Len(frame[t].class_names) > topk
        /\ Cardinality(frame[t].returned) = topk

-----------------------------------------------------------------------------
(* C3 *)

\* C3: every label returned is the REPLACEMENTS image of the class name of an
\* input detection with score > 0 and class not in BLACKLIST, and is itself no
\* BLACKLIST entry.
C3_LabelsComeFromValidDetections ==
    \A t \in Threads :
        frame[t].pc = "returned" =>
            \A label \in frame[t].returned :
                /\ label \notin BLACKLIST
                /\ \E i \in 1..Len(caller[t].class_names) :
                      LET name == caller[t].class_names[i]
                      IN  /\ i <= Len(caller[t].scores)
                          /\ caller[t].scores[i] > 0
                          /\ name \notin BLACKLIST
                          /\ \/ name \in DOMAIN REPLACEMENTS /\ label = REPLACEMENTS[name]
                             \/ name \notin DOMAIN REPLACEMENTS /\ label = name

\* A call given a zero-score detection and a blacklisted one has returned a
\* replaced label.
C3_Witness ==
    \E t \in Threads :
        /\ frame[t].pc = "returned"
        /\ "table" \in frame[t].returned
        /\ \E i \in 1..Len(caller[t].scores) : caller[t].scores[i] = 0
        /\ \E i \in 1..Len(caller[t].class_names) : caller[t].class_names[i] \in BLACKLIST

-----------------------------------------------------------------------------
(* C4 *)

\* The input indices of the detections _nms kept, for a call that has returned
\* (keep_indices then holds what _nms returned, as indices of the pre-filtered
\* arrays).
KeptInputs(t) ==
    LET pre == pre_filter(caller[t].class_names, caller[t].scores)
    IN  [q \in 1..Len(frame[t].keep_indices) |-> pre[frame[t].keep_indices[q]]]

\* C4, as stated: the labels returned are those of the topk NMS survivors with
\* the highest scores, a survivor of lower input index going first among
\* survivors of equal score.
C4_TiesByInputIndex ==
    \A t \in Threads :
        (frame[t].pc = "returned" /\ topk >= 0) =>
            LET c == caller[t]
                kept == Range(KeptInputs(t))
                Ahead(o) == {p \in kept : \/ c.scores[p] > c.scores[o]
                                          \/ c.scores[p] = c.scores[o] /\ p < o}
                selected == {o \in kept : Cardinality(Ahead(o)) < topk}
            IN  frame[t].returned = {replace(c.class_names[o]) : o \in selected}

\* C4, amended: the labels returned are those of the topk (topk >= 0) NMS
\* survivors with the highest scores, a survivor earlier in the list _nms
\* returned going first among survivors of equal score.
C4_TiesByKeptOrder ==
    \A t \in Threads :
        (frame[t].pc = "returned" /\ topk >= 0) =>
            LET c == caller[t]
                kept == KeptInputs(t)
                Ahead(q) == {p \in 1..Len(kept) :
                                \/ c.scores[kept[p]] > c.scores[kept[q]]
                                \/ c.scores[kept[p]] = c.scores[kept[q]] /\ p < q}
                selected == {q \in 1..Len(kept) : Cardinality(Ahead(q)) < topk}
            IN  frame[t].returned = {replace(c.class_names[kept[q]]) : q \in selected}

\* A call with topk = 1 whose two survivors have the same score, the second of
\* the input being first in the list _nms returned, has returned the second.
C4_Witness ==
    \E t \in Threads :
        /\ frame[t].pc = "returned"
        /\ topk = 1
        /\ caller[t].class_names = <<"animal", "dog">>
        /\ caller[t].scores[1] = caller[t].scores[2]
        /\ KeptInputs(t) = <<2, 1>>
        /\ frame[t].returned = {"dog"}

-----------------------------------------------------------------------------
(* C5 *)

\* C5: a call whose boxes, class_names and scores are not all of the same length
\* returns no list.
C5_LengthMismatchRaises ==
    \A t \in Threads :
        frame[t].pc = "returned" =>
            /\ Len(caller[t].boxes) = Len(caller[t].class_names)
            /\ Len(caller[t].scores) = Len(caller[t].class_names)

-----------------------------------------------------------------------------
(* C6 *)

\* The pre-filter survivors of thread t's call whose class name no node of the
\* hierarchy matches.
UnknownSurvivors(t) ==
    {i \in Survivors(caller[t]) : ~SomeNodeMatches(caller[t].class_names[i])}

\* C6: a call with a pre-filter survivor whose class name no node matches never
\* gets past the height lookup (it raises and returns nothing), and the lookup
\* raises only for such a survivor.
C6_UnknownCategoryRaises ==
    \A t \in Threads :
        /\ frame[t].pc \in {"loop", "returned"} => UnknownSurvivors(t) = {}
        /\ (frame[t].pc = "raised" /\ frame[t].raised_at = 134)
               => UnknownSurvivors(t) # {}

\* A call has raised in the lookup for a survivor that at least topk >= 1 known
\* survivors outscore, its input holding also an unmatched blacklisted class.
C6_Witness ==
    \E t \in Threads :
        /\ frame[t].pc = "raised"
        /\ frame[t].raised_at = 134
        /\ topk >= 1
        /\ \E i \in UnknownSurvivors(t) :
              Cardinality({j \in Survivors(caller[t]) \ UnknownSurvivors(t) :
                              caller[t].scores[j] > caller[t].scores[i]}) >= topk
        /\ \E i \in 1..Len(caller[t].class_names) :
              /\ caller[t].class_names[i] \in BLACKLIST
              /\ ~SomeNodeMatches(caller[t].class_names[i])

-----------------------------------------------------------------------------
(* C7 *)

\* The nodes of the JSON tree that are, or are below, a node other than the root
\* whose label is in BLACKLIST.
Pruned ==
    {n \in 1..Len(taxonomy.parent) :
        \E a \in TaxAncestors(taxonomy, n) : a # 1 /\ taxonomy.label[a] \in BLACKLIST}

\* C7, as stated: the constructed tree holds no node with a label in BLACKLIST and
\* no node below one, and every other node with its parent.
C7_NoBlacklistedNode ==
    constructed =>
        /\ \A n \in hierarchy.nodes : hierarchy.LabelName[n] \notin BLACKLIST
        /\ \A n \in hierarchy.nodes :
              \A a \in TaxAncestors(taxonomy, n) : taxonomy.label[a] \notin BLACKLIST
        /\ \A n \in 1..Len(taxonomy.parent) :
              (\A a \in TaxAncestors(taxonomy, n) : taxonomy.label[a] \notin BLACKLIST)
                  => n \in hierarchy.nodes /\ hierarchy.parent[n] = taxonomy.parent[n]

\* C7, amended: the constructed tree holds no node other than the root with a
\* label in BLACKLIST and no node below such a node; the root (never tested) and
\* every other node are there, each with its parent and its label.
C7_NoBlacklistedNodeBelowRoot ==
    constructed =>
        /\ hierarchy.nodes = (1..Len(taxonomy.parent)) \ Pruned
        /\ \A n \in hierarchy.nodes :
              /\ hierarchy.parent[n] = taxonomy.parent[n]
              /\ hierarchy.LabelName[n] = taxonomy.label[n]
              /\ n # 1 => hierarchy.LabelName[n] \notin BLACKLIST

\* A tree has been built from a JSON tree in which a node whose own label is not
\* in BLACKLIST lies below a blacklisted node, and another node is kept.
C7_Witness ==
    /\ constructed
    /\ \E n \in Pruned : taxonomy.label[n] \notin BLACKLIST
    /\ Cardinality(hierarchy.nodes) >= 2

-----------------------------------------------------------------------------
(* C8 *)

\* The sweep of _nms run to its end in one go.
RECURSIVE Sweep(_, _, _, _, _)
Sweep(heights, boxes, threshold, score_order, keep_box_indices) ==
    IF score_order = <<>> THEN keep_box_indices
    ELSE Sweep(heights, boxes, threshold,
               next_order(heights, boxes, threshold, score_order),
               Append(keep_box_indices, score_order[1]))

\* How a call with arrays c ends when it runs alone on the constructed filter:
\* raised, or returned with its set of labels.
AloneOutcome(c) ==
    LET keep   == pre_filter(c.class_names, c.scores)
        boxes  == Take(c.boxes, keep)
        names  == Take(c.class_names, keep)
        scores == Take(c.scores, keep)
        nodes  == [k \in 1..Len(names) |-> resolve(hierarchy, names[k])]
        heights == [k \in 1..Len(nodes) |-> NodeHeight(hierarchy, nodes[k])]
        kept   == Sweep(heights, boxes, nms_threshold, argsort(heights, argsort_ties), <<>>)
        pairs  == slice(sorted_by_score(zip(Take(names, kept), Take(scores, kept))), topk)
    IN  IF \/ Len(c.scores) < Len(c.class_names)
           \/ ~InBounds(c.boxes, keep)
           \/ \E k \in 1..Len(nodes) : nodes[k] = 0
        THEN [pc |-> "raised", returned |-> {}]
        ELSE [pc |-> "returned", returned |-> {replace(pairs[k][1]) : k \in 1..Len(pairs)}]

\* C8: no step after construction changes the hierarchy, nms_threshold or topk,
\* no step of a call in progress changes the arrays its caller passed, and a
\* call interleaved with another thread's calls ends as it ends run alone.
C8_CallsAreIndependent ==
    /\ [][ /\ constructed => UNCHANGED <<hierarchy, nms_threshold, topk>>
           /\ \A t \in Threads :
                 frame[t].pc \notin {"idle", "returned", "raised"}
                     => caller'[t] = caller[t] ]_vars
    /\ [](\A t \in Threads :
             frame[t].pc \in {"returned", "raised"}
                 => [pc |-> frame[t].pc, returned |-> frame[t].returned]
                        = AloneOutcome(caller[t]))

\* One thread has returned labels while the other is in the middle of the sweep
\* of a different call.
C8_Witness ==
    /\ frame[1].pc = "returned"
    /\ frame[1].returned # {}
    /\ frame[2].pc = "loop"
    /\ frame[2].keep_box_indices # <<>>
    /\ frame[2].score_order # <<>>
    /\ caller[1] # caller[2]

-----------------------------------------------------------------------------
(* C9 *)

\* Whether height is the height of the first node among candidates, in pre-order,
\* whose LabelName occurs in name.
HeightOfFirstMatch(candidates, name, height) ==
    \E m \in candidates :
        /\ IsIn(hierarchy.LabelName[m], name)
        /\ \A m2 \in candidates \ {m} :
              IsIn(hierarchy.LabelName[m2], name) => Precedes(m, m2)
        /\ height = NodeHeight(hierarchy, m)

\* C9, as stated: the height _nms uses for a class name is that of the first node
\* other than the root, in pre-order, whose LabelName occurs in the name.
C9_NeverTheRoot ==
    \A t \in Threads :
        frame[t].pc = "loop" =>
            \A k \in 1..Len(frame[t].class_names) :
                HeightOfFirstMatch(hierarchy.nodes \ {hierarchy.root},
                                   frame[t].class_names[k], frame[t].heights[k])

\* C9, amended: the height _nms uses for a class name is that of the first node,
\* in pre-order from the root and the root included, whose LabelName occurs in
\* the name.
C9_FirstMatchInPreOrder ==
    \A t \in Threads :
        frame[t].pc = "loop" =>
            \A k \in 1..Len(frame[t].class_names) :
                HeightOfFirstMatch(hierarchy.nodes,
                                   frame[t].class_names[k], frame[t].heights[k])

\* _nms has taken the heights of a class name that two nodes of different height
\* match and of a class name that the root matches.
C9_Witness ==
    \E t \in Threads :
        /\ frame[t].pc = "loop"
        /\ \E k \in 1..Len(frame[t].class_names) :
              \E m, m2 \in hierarchy.nodes :
                  /\ IsIn(hierarchy.LabelName[m], frame[t].class_names[k])
                  /\ IsIn(hierarchy.LabelName[m2], frame[t].class_names[k])
                  /\ NodeHeight(hierarchy, m) # NodeHeight(hierarchy, m2)
        /\ \E k \in 1..Len(frame[t].class_names) :
              IsIn(hierarchy.LabelName[hierarchy.root], frame[t].class_names[k])

-----------------------------------------------------------------------------
(* C10 *)

\* C10: throughout the sweep over n survivors (n >= 0) the iterations done and
\* the indices still to visit number at most n together, the kept list holds
\* each survivor index at most once, in non-decreasing height, and shares no
\* index with score_order.
C10_SweepIsBoundedAndDisjoint ==
    \A t \in Threads :
        frame[t].pc = "loop" =>
            LET f == frame[t]
                n == Len(f.class_names)
                kept == f.keep_box_indices
            IN  /\ Len(kept) + Len(f.score_order) <= n
                /\ Range(kept) \cup Range(f.score_order) \subseteq 1..n
                /\ \A p, q \in 1..Len(kept) : p # q => kept[p] # kept[q]
                /\ Range(kept) \cap Range(f.score_order) = {}
                /\ \A p, q \in 1..Len(kept) :
                      p < q => f.heights[kept[p]] <= f.heights[kept[q]]

\* The sweep has ended after three iterations over three survivors of different
\* heights.
C10_Witness ==
    \E t \in Threads :
        /\ frame[t].pc = "loop"
        /\ frame[t].score_order = <<>>
        /\ Len(frame[t].keep_box_indices) = 3
        /\ Cardinality(Range(frame[t].heights)) >= 2

=============================================================================
